---- MODULE Spec2Model ----
(***************************************************************************)
(* Staging-and-publish workflow of the smart-reply generator (src/app.py). *)
(*                                                                         *)
(* Texts are run-length encoded: a text is a sequence of runs [c, n], n    *)
(* copies of the character c, adjacent runs holding different characters.  *)
(* Trimming, comparison and UTF-8 length are computed on that form, which  *)
(* also represents the texts around the 4096-byte limit.                   *)
(* The prefill table, the external                                         *)
(* review's reply and the clock are shared state; every handler is an      *)
(* action, and api_publish is split at each access to a shared resource    *)
(* (table read, get_review, publish_reply, table update) because requests  *)
(* run concurrently without transactions.                                  *)
(* The storage backend is taken to be available (no database errors).      *)
(***************************************************************************)
EXTENDS Integers, Sequences, FiniteSets, TLC

\* ------------------------------------------------------------------ bounds
MaxT0 == 1                  \* latest creation time of a staged record
MaxSlack == 2               \* seconds the clock runs past the TTL
MaxSubmitted == 15          \* reviews submitted in one /generate call

\* --------------------------------------------------------- program constants
PREFILL_TTL_SECONDS == 259200
MAX_REPLY_BYTES == 4096
MAX_REVIEWS == 10

\* ------------------------------------------------------------------- texts
\* Python None, kept apart from the empty text.
NONE == <<[c |-> "<None>", n |-> 0]>>
EMPTY == <<>>

\* The text of n copies of the character ch.
Run(ch, n) == <<[c |-> ch, n |-> n]>>

\* str.isspace() on the characters of the alphabet used here.
IsSpace(ch) == ch \in {" ", "\n"}

RECURSIVE LStrip(_)
LStrip(s) == IF s # <<>> /\ IsSpace(Head(s).c) THEN LStrip(Tail(s)) ELSE s

RECURSIVE RStrip(_)
RStrip(s) ==
    IF s # <<>> /\ IsSpace(s[Len(s)].c) THEN RStrip(SubSeq(s, 1, Len(s) - 1)) ELSE s

\* str.strip()
Strip(s) == RStrip(LStrip(s))

\* Python's `x or d` on an optional text: None and "" are falsy.
OrElse(x, d) == IF x = NONE \/ x = EMPTY THEN d ELSE x

\* Bytes of one character in UTF-8.
Utf8Bytes(ch) == IF ch = "é" THEN 2 ELSE 1

RECURSIVE EncodedLen(_)
EncodedLen(s) ==
    IF s = <<>> THEN 0 ELSE Head(s).n * Utf8Bytes(Head(s).c) + EncodedLen(Tail(s))

\* variant: the length in characters, len(s or "")
RECURSIVE CharLen(_)
CharLen(s) == IF s = <<>> THEN 0 ELSE Head(s).n + CharLen(Tail(s))

Utf8Len_Chars(s) == CharLen(OrElse(s, EMPTY))

\* len((s or "").encode("utf-8"))
Utf8Len(s) == EncodedLen(OrElse(s, EMPTY))

\* ------------------------------------------------------- review composition
\* The same text with adjacent runs of one character merged, so that equal
\* strings are equal sequences.
RECURSIVE Canon(_)
Canon(s) ==
    IF Len(s) <= 1 THEN s
    ELSE IF s[1].c = s[2].c
         THEN Canon(<<[c |-> s[1].c, n |-> s[1].n + s[2].n]>> \o SubSeq(s, 3, Len(s)))
         ELSE <<s[1]>> \o Canon(Tail(s))

\* a + b on strings
Concat(a, b) == Canon(a \o b)

\* the dashes, each taken as one symbol: U+2014, U+2013 and the ASCII hyphen
EM_DASH == "<em dash>"
EN_DASH == "<en dash>"
HYPHEN == "-"

\* s.replace(en dash, em dash).replace("-", em dash)
ReplaceDashes(s) ==
    Canon([i \in DOMAIN s |->
             [c |-> IF s[i].c \in {EN_DASH, HYPHEN} THEN EM_DASH ELSE s[i].c, n |-> s[i].n]])

\* str.splitlines(), without the empty lines between consecutive line breaks
\* (the caller drops blank lines)
RECURSIVE LinesFrom(_, _)
LinesFrom(s, cur) ==
    IF s = <<>> THEN <<cur>>
    ELSE IF Head(s).c = "\n" THEN <<cur>> \o LinesFrom(Tail(s), <<>>)
    ELSE LinesFrom(Tail(s), Append(cur, Head(s)))

\* [ln.strip() for ln in text.splitlines() if ln.strip()]
NonBlankLines(text) ==
    LET raw == LinesFrom(text, <<>>)
        stripped == [i \in DOMAIN raw |-> Strip(raw[i])]
    IN  SelectSeq(stripped, LAMBDA ln : ln # EMPTY)

\* "\n".join(lines)
RECURSIVE JoinLines(_)
JoinLines(lines) ==
    IF lines = <<>> THEN EMPTY
    ELSE IF Len(lines) = 1 THEN lines[1]
    ELSE Concat(Concat(lines[1], Run("\n", 1)), JoinLines(Tail(lines)))

\* em dash + " " + ", ".join(parts), or "" without parts
_suffix_line(name, date) ==
    LET n == Strip(OrElse(name, EMPTY))
        d == Strip(OrElse(date, EMPTY))
        am == Concat(Run("a", 1) \o Run("m", 1) \o Run(" ", 1), d)
        parts == (IF n # EMPTY THEN <<n>> ELSE <<>>) \o (IF d # EMPTY THEN <<am>> ELSE <<>>)
    IN  IF parts = <<>> THEN EMPTY
        ELSE IF Len(parts) = 1 THEN Concat(Run(EM_DASH, 1) \o Run(" ", 1), parts[1])
        ELSE Concat(Concat(Run(EM_DASH, 1) \o Run(" ", 1), parts[1]),
                    Concat(Run(",", 1) \o Run(" ", 1), parts[2]))

\* while lines and lines[-1].replace(...) == normalized_suffix: lines.pop()
RECURSIVE PopSuffix(_, _)
PopSuffix(lines, normalized_suffix) ==
    IF lines # <<>> /\ ReplaceDashes(lines[Len(lines)]) = normalized_suffix
    THEN PopSuffix(SubSeq(lines, 1, Len(lines) - 1), normalized_suffix)
    ELSE lines

\* variant: the footer is appended without dropping the ones already there
_dedupe_reviewer_NoPop(text, reviewer, reviewed_at) ==
    LET t == Strip(OrElse(text, EMPTY))
        suffix == _suffix_line(reviewer, reviewed_at)
    IN  IF t = EMPTY THEN t
        ELSE IF suffix = EMPTY THEN t
        ELSE JoinLines(Append(NonBlankLines(t), ReplaceDashes(suffix)))

_dedupe_reviewer(text, reviewer, reviewed_at) ==
    LET t == Strip(OrElse(text, EMPTY))
        suffix == _suffix_line(reviewer, reviewed_at)
        normalized_suffix == ReplaceDashes(suffix)
    IN  IF t = EMPTY THEN t
        ELSE IF suffix = EMPTY THEN t
        ELSE JoinLines(Append(PopSuffix(NonBlankLines(t), normalized_suffix),
                              normalized_suffix))

\* ------------------------------------------------------------------ inputs
Procs == {"p1", "p2", "p3"}
\* rids secrets.token_urlsafe hands out here, and one it never hands out
RIDS == {"T1"}
NeverIssued == "T0"
NoRid == ""
\* (accountId, locationId, reviewId) as posted to /api/prefill
StagedIds ==
    {<<Run("a", 1), Run("a", 1), Run("a", 1)>>,
     <<Run("a", 1), NONE, Run("a", 1)>>,
     <<NONE, Run("a", 1), Run(" ", 1)>>,
     <<Run(" ", 1), EMPTY, NONE>>}
\* the /api/prefill requests sent while publishing is explored: the identifiers
\* vary, the review is "x" by "J"
StagedInputs ==
    {[ids |-> t, review |-> Run("x", 1), reviewer |-> Run("J", 1), reviewed_at |-> EMPTY] :
        t \in StagedIds}
\* the footer _suffix_line builds for reviewer "J", with the dash as typed
FooterJ(dash) == Run(dash, 1) \o Run(" ", 1) \o Run("J", 1)
\* review texts posted: none, blank, plain, ending in the footer of "J" typed
\* with an en dash, ending in it twice, ending in somebody else's footer
ReviewTexts ==
    {NONE, Run(" ", 1), Run(" ", 1) \o Run("x", 1),
     Run("x", 1) \o Run("\n", 2) \o FooterJ(EN_DASH),
     Run("x", 1) \o Run("\n", 1) \o FooterJ(EM_DASH) \o Run("\n", 1) \o FooterJ(HYPHEN),
     Run("x", 1) \o Run("\n", 1) \o Run(EM_DASH, 1) \o Run(" ", 1) \o Run("B", 1)}
\* reviewers posted: none, plain, padded, and a name holding a line break
Reviewers ==
    {EMPTY, Run("J", 1), Run(" ", 1) \o Run("J", 1),
     Run("J", 1) \o Run("\n", 1) \o Run("D", 1)}
ReviewDates == {EMPTY, Run("1", 1) \o Run(HYPHEN, 1) \o Run("1", 1)}
\* the /api/prefill requests sent while composition is explored
ComposeInputs ==
    {[ids |-> <<Run("a", 1), Run("a", 1), Run("a", 1)>>,
      review |-> x, reviewer |-> r, reviewed_at |-> d] :
        x \in ReviewTexts, r \in Reviewers, d \in ReviewDates}
\* the api_publish requests sent: secret right?, ?rid=, body rid, body reply,
\* body overwrite
PublishInputs ==
    {<<TRUE, "T1", NoRid, Run("a", 1), "">>,
     <<FALSE, "T1", NoRid, NONE, "">>,
     <<TRUE, NoRid, NoRid, NONE, "">>,
     <<TRUE, NeverIssued, NoRid, Run("a", 1), "">>,
     <<TRUE, NoRid, "T1", Run("a", 1) \o Run(" ", 1), "">>,
     <<TRUE, "T1", NeverIssued, Run("a", 1), "no">>,
     <<TRUE, "T1", NoRid, Run("a", 1), "true">>,
     <<TRUE, "T1", NoRid, NONE, "">>,
     <<TRUE, "T1", NoRid, Run("a", MAX_REPLY_BYTES + 1), "">>}
\* the second handler instance serves the retry of a publish request
RetryInputs ==
    {<<TRUE, "T1", NoRid, Run("a", 1), "">>,
     <<TRUE, NeverIssued, NoRid, Run("a", 1), "">>}
\* the third one serves the requests that differ in the reply they carry: one
\* differing from the generated reply, none, a blank one, and replies of
\* MAX_REPLY_BYTES / 2 and MAX_REPLY_BYTES / 2 + 1 two-byte characters
ReplyInputs ==
    {<<TRUE, "T1", NoRid, Run("a", 1), "">>,
     <<TRUE, "T1", NoRid, NONE, "">>,
     <<TRUE, "T1", NoRid, Run(" ", 1), "">>,
     <<TRUE, "T1", NoRid, Run("é", MAX_REPLY_BYTES \div 2), "">>,
     <<TRUE, "T1", NoRid, Run("é", MAX_REPLY_BYTES \div 2 + 1), "">>}
InputsOf(p) ==
    IF p = "p1" THEN PublishInputs ELSE IF p = "p2" THEN RetryInputs ELSE ReplyInputs
\* what a human may leave as the reply on the platform (EMPTY: deletes it)
ExtComments == {Run("a", 1) \o Run(" ", 1), Run("b", 1), Run(" ", 1), EMPTY}
TruthyWords == {"1", "true", "yes", "on"}
\* markers of the collaborator's output format, each taken as one symbol:
\* "ÖFFENTLICHE ANTWORT:", INSIGHTS_HEADER, a JSON block that parses, one that
\* does not
PUBLIC_HEADER == "<OEFFENTLICHE ANTWORT:>"
INSIGHTS_HEADER == "<INTERNE INSIGHTS (NICHT VEROEFFENTLICHEN):>"
JSON_OK == "<{json}>"
JSON_BAD == "<{bad>"
\* the collaborator raised instead of answering
FAIL == <<[c |-> "<raise>", n |-> 0]>>
RawFull ==
    Run(PUBLIC_HEADER, 1) \o Run("\n", 1) \o Run("b", 1) \o Run("\n", 2)
    \o Run(INSIGHTS_HEADER, 1) \o Run("\n", 1) \o Run(JSON_OK, 1)
\* the /generate requests sent: rid, reviews, ratings, and what the collaborator
\* answers to the successive calls.  These two store a result under T1:
StoredGenerateInputs ==
    {[rid |-> "T1", reviews |-> <<EMPTY, Run("r", 1) \o Run(" ", 1), Run("s", 1)>>,
      ratings |-> <<"5">>, outs |-> <<RawFull, RawFull>>],
     [rid |-> "T1", reviews |-> <<Run(" ", 1)>>, ratings |-> <<>>, outs |-> <<>>]}
\* and these are the others: a failing call with a token, a batch whose second
\* call fails, a token never issued, a batch of MaxSubmitted reviews, and a
\* token with blank entries up to position MAX_REVIEWS and a review after them
GenerateInputs ==
    StoredGenerateInputs \cup
    {[rid |-> "T1", reviews |-> <<Run("r", 1)>>, ratings |-> <<"1">>,
      outs |-> <<FAIL>>],
     [rid |-> NoRid, reviews |-> <<Run("r", 1), Run("s", 1), Run("t", 1)>>,
      ratings |-> <<"4", "">>, outs |-> <<Run("b", 1), FAIL, Run("c", 1)>>],
     [rid |-> NeverIssued, reviews |-> <<Run("r", 1)>>, ratings |-> <<>>,
      outs |-> <<Run(" ", 1)>>],
     [rid |-> NoRid, reviews |-> [i \in 1 .. MaxSubmitted |-> Run("r", i)],
      ratings |-> <<>>, outs |-> [i \in 1 .. MaxSubmitted |-> Run("b", 1)]],
     [rid |-> "T1",
      reviews |-> [i \in 1 .. MAX_REVIEWS + 1 |->
                     IF i <= MAX_REVIEWS THEN Run(" ", 1) ELSE Run("r", 1)],
      ratings |-> <<>>, outs |-> <<Run("b", 1)>>]}
\* the clock values of interest: around creation and around creation + TTL
ClockValues ==
    (0 .. MaxT0) \cup
    ((PREFILL_TTL_SECONDS - 1) .. (PREFILL_TTL_SECONDS + MaxSlack))

\* ------------------------------------------------------------------- state
VARIABLES
    ENABLE_PUBLISH,     \* feature flag, read once at start-up
    PUBLISH_DRY_RUN,    \* feature flag, read once at start-up
    now,                \* int(time.time())
    prefill,            \* the prefill table: rid -> row, for the rids stored
    ext,                \* the external review's reviewReply: comment, updateTime
    humanEdited,        \* history: the external reply was edited out-of-band
    req,                \* per handler instance: the api_publish request it runs
    view,               \* the response of the last read handler (index, debug)
    PUBLISH_UI_ENABLED, \* feature flag, read once at start-up
    gen,                \* the last /generate call: its request and its outcome
    prompt              \* the last build_prompt call: its inputs and its lines

vars ==
    <<ENABLE_PUBLISH, PUBLISH_DRY_RUN, now, prefill, ext, humanEdited, req, view,
      PUBLISH_UI_ENABLED, gen, prompt>>

\* A JSON null in a column or a response field.
NoTime == -1
NoGenerated == [set |-> FALSE, replies |-> <<>>]
NoPublishResult ==
    [kind |-> "none", dry_run |-> FALSE, already_up_to_date |-> FALSE,
     overwrite |-> FALSE, result |-> EMPTY]

\* The payload fields kept: the review as composed, its author and date, and
\* the three identifiers publishing needs.
NoPayload ==
    [review |-> EMPTY, reviewer |-> EMPTY, reviewed_at |-> EMPTY,
     accountId |-> EMPTY, locationId |-> EMPTY, reviewId |-> EMPTY]

\* The columns of a prefill row (CREATE TABLE prefill).
NewRow(payload, t) ==
    [payload |-> payload, created_at |-> t,
     generated |-> NoGenerated, generated_at |-> NoTime,
     published_at |-> NoTime, publish_result |-> NoPublishResult]

\* ------------------------------------------------------ publishing readiness
PublishKeys == <<"accountId", "locationId", "reviewId">>

\* variant: blank values count as present
IsBlank_NoneOnly(v) == v = NONE

\* v is None or str(v).strip() == ""
IsBlank(v) == v = NONE \/ Strip(v) = EMPTY

\* variant: only the first required key is looked at
MissingFrom_FirstOnly(p, keys) ==
    IF keys # <<>> /\ IsBlank(p[Head(keys)]) THEN <<Head(keys)>> ELSE <<>>

RECURSIVE MissingFrom(_, _)
MissingFrom(p, keys) ==
    IF keys = <<>> THEN <<>>
    ELSE (IF IsBlank(p[Head(keys)]) THEN <<Head(keys)>> ELSE <<>>)
         \o MissingFrom(p, Tail(keys))

\* compute_publish_ready: (ready, missing)
compute_publish_ready(payload) ==
    LET missing == MissingFrom(payload, PublishKeys)
    IN  [ready |-> Len(missing) = 0, missing |-> missing]

\* ------------------------------------------------------------------ ledger
\* variant: a row already stored under the rid is replaced
prefill_insert_Upsert(table, rid, payload, t) ==
    [x \in DOMAIN table \cup {rid} |-> IF x = rid THEN NewRow(payload, t) ELSE table[x]]

\* INSERT INTO prefill (rid, payload, created_at): rid is the primary key, so
\* the INSERT of a rid already stored raises and leaves the table as it is
prefill_insert(table, rid, payload, t) ==
    IF rid \in DOMAIN table THEN table
    ELSE [x \in DOMAIN table \cup {rid} |-> IF x = rid THEN NewRow(payload, t) ELSE table[x]]

\* variant: the row is written back whole, without the generated replies
prefill_set_published_WholeRow(table, rid, publish_result, t) ==
    IF rid \in DOMAIN table
    THEN [table EXCEPT ![rid].published_at = t, ![rid].publish_result = publish_result,
                       ![rid].generated = NoGenerated, ![rid].generated_at = NoTime]
    ELSE table

\* UPDATE prefill SET published_at, publish_result WHERE rid
prefill_set_published(table, rid, publish_result, t) ==
    IF rid \in DOMAIN table
    THEN [table EXCEPT ![rid].published_at = t, ![rid].publish_result = publish_result]
    ELSE table

\* variant: an empty list of replies is not stored
prefill_set_generated_KeepOnEmpty(table, rid, data, t) ==
    IF rid \in DOMAIN table /\ data.replies # <<>>
    THEN [table EXCEPT ![rid].generated = data, ![rid].generated_at = t]
    ELSE table

\* variant: the row is replaced by a fresh one holding the generated replies
prefill_set_generated_Replace(table, rid, data, t) ==
    IF rid \in DOMAIN table
    THEN [table EXCEPT ![rid] = [NewRow(NoPayload, t) EXCEPT
                                    !.generated = data, !.generated_at = t]]
    ELSE table

\* UPDATE prefill SET generated, generated_at WHERE rid
prefill_set_generated(table, rid, data, t) ==
    IF rid \in DOMAIN table
    THEN [table EXCEPT ![rid].generated = data, ![rid].generated_at = t]
    ELSE table

\* ----------------------------------------------------------------- requests
NoResp ==
    [status |-> 0, error |-> "", missing |-> <<>>, already_up_to_date |-> FALSE,
     dry_run |-> FALSE, existingReply |-> NONE, existingReplyUpdatedAt |-> NoTime,
     result |-> EMPTY]

Resp(status, error) == [NoResp EXCEPT !.status = status, !.error = error]

IdleReq ==
    [pc |-> "idle", rid |-> NoRid, overwrite |-> FALSE, reply_text |-> EMPTY,
     existing_reply |-> NONE, existing_updated_at |-> NoTime,
     pending |-> NoPublishResult, resp |-> NoResp,
     \* history of this request, read by the properties only: how the conflict
     \* check ended, and whether the row held a publish_result at the lookup
     \* and whether now > created_at + TTL held of it, and where the reply text
     \* came from (the request body or the row's generated replies)
     precheck |-> "none", republish |-> FALSE, aged |-> FALSE, source |-> "none"]

\* what a read handler answered: which handler, for which rid, the fields of the
\* row it exposed, and (history) whether now > created_at + TTL held of the row
NoView ==
    [op |-> "none", rid |-> NoRid, aged |-> FALSE, status |-> 0, found |-> FALSE,
     publish_ready |-> FALSE, publish_missing |-> <<>>, replies |-> <<>>,
     review |-> EMPTY, created_at |-> NoTime, published_at |-> NoTime,
     publish_result |-> NoPublishResult]

\* no build_prompt call yet
NoPrompt == [called |-> FALSE, template |-> <<>>, user_input |-> <<>>, prompt_lines |-> <<>>]

\* no /generate call yet
NoGen ==
    [called |-> FALSE, rid |-> NoRid, reviews |-> <<>>, outs |-> <<>>,
     processed |-> <<>>, status |-> 0, replies |-> <<>>, stored |-> FALSE]

Init ==
    /\ ENABLE_PUBLISH \in BOOLEAN
    /\ PUBLISH_DRY_RUN \in BOOLEAN
    /\ PUBLISH_UI_ENABLED \in BOOLEAN
    /\ gen = NoGen
    /\ prompt = NoPrompt
    /\ now = 0
    /\ prefill = << >>
    /\ ext = [comment |-> EMPTY, updateTime |-> NoTime]
    /\ humanEdited = FALSE
    /\ req = [p \in Procs |-> IdleReq]
    /\ view = NoView

\* time passes
Tick ==
    /\ \E t \in ClockValues :
         /\ t > now
         /\ now' = t
    /\ UNCHANGED <<ENABLE_PUBLISH, PUBLISH_DRY_RUN, PUBLISH_UI_ENABLED, prompt, gen, prefill, ext, humanEdited, req, view>>

\* a human replies to the review (or edits or deletes the reply) on the platform
HumanReply ==
    /\ \E c \in ExtComments :
         /\ c # ext.comment
         /\ ext' = [comment |-> c, updateTime |-> IF c = EMPTY THEN NoTime ELSE now]
    /\ humanEdited' = TRUE
    /\ UNCHANGED <<ENABLE_PUBLISH, PUBLISH_DRY_RUN, PUBLISH_UI_ENABLED, prompt, gen, now, prefill, req, view>>

\* POST /api/prefill with the right secret: stage a payload under the rid
\* secrets.token_urlsafe draws (lines 322-354).  Records are staged while the
\* clock is at most MaxT0.
api_prefill(inputs) ==
    /\ now <= MaxT0
    /\ \E rid \in RIDS, in \in inputs :
         LET review == Strip(OrElse(in.review, EMPTY))
             reviewer == Strip(OrElse(in.reviewer, EMPTY))
             reviewed_at == Strip(OrElse(in.reviewed_at, EMPTY))
             payload == [review |-> _dedupe_reviewer(review, reviewer, reviewed_at),
                         reviewer |-> reviewer,
                         reviewed_at |-> reviewed_at,
                         accountId |-> Strip(OrElse(in.ids[1], EMPTY)),
                         locationId |-> Strip(OrElse(in.ids[2], EMPTY)),
                         reviewId |-> Strip(OrElse(in.ids[3], EMPTY))]
         IN  prefill' = prefill_insert(prefill, rid, payload, now)
    /\ UNCHANGED <<ENABLE_PUBLISH, PUBLISH_DRY_RUN, PUBLISH_UI_ENABLED, prompt, gen, now, ext, humanEdited, req, view>>

\* now > createdAt + TTL, of the row stored under rid
Aged(rid) ==
    rid \in DOMAIN prefill /\ now > prefill[rid].created_at + PREFILL_TTL_SECONDS

\* ------------------------------------------------------------- api_publish
\* str(body.get("overwrite") or "").strip().lower() in ("1", "true", "yes", "on"),
\* on flag words already trimmed and in lower case
ParseOverwrite(word) == word \in TruthyWords

\* variant: the TTL is not applied
IsExpired_Never(created_at, t) == FALSE

\* created_at and int(time.time()) - created_at > PREFILL_TTL_SECONDS
IsExpired(created_at, t) == created_at # 0 /\ t - created_at > PREFILL_TTL_SECONDS

\* the fallback of the reply text: (replies[0].get("reply") or "").strip()
FirstGeneratedReply(generated) ==
    IF generated.set /\ Len(generated.replies) > 0
    THEN Strip(OrElse(generated.replies[1].reply, EMPTY))
    ELSE EMPTY

\* reply_text: the body's reply, else the first generated reply
ResolveReply(body_reply, generated) ==
    LET fromBody == Strip(OrElse(body_reply, EMPTY))
    IN  IF fromBody # EMPTY THEN fromBody ELSE FirstGeneratedReply(generated)

\* which of the two the reply text is taken from
ReplySource(body_reply) ==
    IF Strip(OrElse(body_reply, EMPTY)) # EMPTY THEN "body" ELSE "generated"

\* _utf8_len(reply_text) > 4096
ReplyTooLong(reply_text) == Utf8Len(reply_text) > MAX_REPLY_BYTES

Done(r, resp) == [r EXCEPT !.pc = "done", !.resp = resp]

\* api_publish up to the size guard (lines 397-449): one read of the table and
\* of the clock, then the checks in the order of the code
PublishStartOutcome(secret_ok, rid_arg, rid_body, body_reply, overwrite_word) ==
    LET rid == IF rid_arg # NoRid THEN rid_arg ELSE rid_body
        r0 == [IdleReq EXCEPT !.rid = rid]
    IN  IF ~secret_ok THEN Done(r0, Resp(401, "unauthorized"))
        ELSE IF ~ENABLE_PUBLISH THEN Done(r0, Resp(403, "publishing disabled"))
        ELSE IF rid = NoRid THEN Done(r0, Resp(400, "missing rid"))
        ELSE IF rid \notin DOMAIN prefill
             THEN Done(r0, Resp(404, "rid not found"))
        ELSE
        LET row == prefill[rid]
            r1 == [r0 EXCEPT !.aged = Aged(rid)]
            r2 == [r1 EXCEPT !.republish = (row.publish_result.kind # "none"),
                             !.overwrite = ParseOverwrite(overwrite_word),
                             !.source = ReplySource(body_reply)]
            ready == compute_publish_ready(row.payload)
            reply_text == ResolveReply(body_reply, row.generated)
        IN  IF IsExpired(row.created_at, now)
            THEN Done(r1, Resp(410, "rid expired"))
            ELSE IF ~ready.ready
            THEN Done(r1,
                      [Resp(400, "publish not ready") EXCEPT !.missing = ready.missing])
            ELSE IF reply_text = EMPTY
            THEN Done(r2, Resp(400, "no reply text available"))
            ELSE IF ReplyTooLong(reply_text)
            THEN Done([r2 EXCEPT !.reply_text = reply_text],
                      Resp(400, "reply_too_long"))
            ELSE [r2 EXCEPT !.reply_text = reply_text, !.pc = "precheck"]

PublishStart(p) ==
    /\ req[p].pc \in {"idle", "done"}
    /\ \E in \in InputsOf(p) :
         req' = [req EXCEPT ![p] =
                    PublishStartOutcome(in[1], in[2], in[3], in[4], in[5])]
    /\ UNCHANGED <<ENABLE_PUBLISH, PUBLISH_DRY_RUN, PUBLISH_UI_ENABLED, prompt, gen, now, prefill, ext, humanEdited, view>>

\* existing_reply = (rr.get("comment") or "").strip() or None
ExistingReply(comment) ==
    IF Strip(OrElse(comment, EMPTY)) = EMPTY THEN NONE ELSE Strip(comment)

\* variant: the overwrite flag is ignored
ConflictBranch_NoForce(r) == r.existing_reply # NONE

\* line 463: existing_reply and not overwrite
ConflictBranch(r) == r.existing_reply # NONE /\ ~r.overwrite

\* variant: only the first publish of a row is taken as already up to date
SameReply_FirstOnly(r) == r.existing_reply = r.reply_text /\ ~r.republish

\* line 465: existing_reply == reply_text
SameReply(r) == r.existing_reply = r.reply_text

\* lines 466-467: already up to date; the table update follows
AlreadyUpToDate(r) ==
    [r EXCEPT !.pc = "record",
              !.pending = [NoPublishResult EXCEPT
                              !.kind = "uptodate",
                              !.dry_run = PUBLISH_DRY_RUN,
                              !.already_up_to_date = TRUE],
              !.resp = [Resp(200, "") EXCEPT
                           !.already_up_to_date = TRUE,
                           !.existingReplyUpdatedAt = r.existing_updated_at]]

\* variant: the conflict is written to the ledger before the 409 is returned
Conflict_Records(r) ==
    [r EXCEPT !.pc = "record",
              !.pending = [NoPublishResult EXCEPT !.kind = "uptodate"],
              !.resp = [Resp(409, "already_replied") EXCEPT
                           !.existingReply = r.existing_reply,
                           !.existingReplyUpdatedAt = r.existing_updated_at]]

\* lines 469-475: 409 already_replied
Conflict(r) ==
    Done(r, [Resp(409, "already_replied") EXCEPT
                !.existingReply = r.existing_reply,
                !.existingReplyUpdatedAt = r.existing_updated_at])

\* variant: overwrite bypasses the dry run
WriteStep_ForceGoesLive(r) ==
    IF PUBLISH_DRY_RUN /\ ~r.overwrite
    THEN [r EXCEPT !.pc = "record",
                   !.pending = [NoPublishResult EXCEPT
                                   !.kind = "dry", !.dry_run = TRUE,
                                   !.overwrite = r.overwrite],
                   !.resp = [Resp(200, "") EXCEPT !.dry_run = TRUE]]
    ELSE [r EXCEPT !.pc = "put"]

\* lines 477-488: the dry run is recorded, the real run goes on to publish_reply
WriteStep(r) ==
    IF PUBLISH_DRY_RUN
    THEN [r EXCEPT !.pc = "record",
                   !.pending = [NoPublishResult EXCEPT
                                   !.kind = "dry", !.dry_run = TRUE,
                                   !.overwrite = r.overwrite],
                   !.resp = [Resp(200, "") EXCEPT !.dry_run = TRUE]]
    ELSE [r EXCEPT !.pc = "put"]

\* lines 463-488: what the request does once the conflict check has returned
\* (or failed, leaving existing_reply = None)
AfterPrecheck(r) ==
    IF ConflictBranch(r)
    THEN IF SameReply(r) THEN AlreadyUpToDate(r) ELSE Conflict(r)
    ELSE WriteStep(r)

\* get_review answers: lines 454-458, then the decisions that follow
PublishPrecheckOk(p) ==
    /\ req[p].pc = "precheck"
    /\ req' = [req EXCEPT ![p] =
                 AfterPrecheck([req[p] EXCEPT
                     !.existing_reply = ExistingReply(ext.comment),
                     !.existing_updated_at = ext.updateTime,
                     !.precheck = "ok"])]
    /\ UNCHANGED <<ENABLE_PUBLISH, PUBLISH_DRY_RUN, PUBLISH_UI_ENABLED, prompt, gen, now, prefill, ext, humanEdited, view>>

\* variant: a failed conflict check rejects the request
PublishPrecheckFail_Rejects(p) ==
    /\ req[p].pc = "precheck"
    /\ req' = [req EXCEPT ![p] =
                 Done([req[p] EXCEPT !.precheck = "failed"],
                      Resp(502, "precheck_failed"))]
    /\ UNCHANGED <<ENABLE_PUBLISH, PUBLISH_DRY_RUN, PUBLISH_UI_ENABLED, prompt, gen, now, prefill, ext, humanEdited, view>>

\* get_review raises (token, HTTP or network error): lines 459-461
PublishPrecheckFail(p) ==
    /\ req[p].pc = "precheck"
    /\ req' = [req EXCEPT ![p] =
                 AfterPrecheck([req[p] EXCEPT !.precheck = "failed"])]
    /\ UNCHANGED <<ENABLE_PUBLISH, PUBLISH_DRY_RUN, PUBLISH_UI_ENABLED, prompt, gen, now, prefill, ext, humanEdited, view>>

\* publish_reply succeeds: the platform stores the comment (line 488)
PublishPutOk(p) ==
    /\ req[p].pc = "put"
    /\ ext' = [comment |-> req[p].reply_text, updateTime |-> now]
    /\ req' = [req EXCEPT ![p] =
                 [req[p] EXCEPT
                     !.pc = "record",
                     !.pending = [NoPublishResult EXCEPT
                                     !.kind = "real", !.dry_run = FALSE,
                                     !.overwrite = req[p].overwrite,
                                     !.result = req[p].reply_text],
                     !.resp = [Resp(200, "") EXCEPT !.result = req[p].reply_text]]]
    /\ UNCHANGED <<ENABLE_PUBLISH, PUBLISH_DRY_RUN, PUBLISH_UI_ENABLED, prompt, gen, now, prefill, humanEdited, view>>

\* variant: the failure of publish_reply is recorded like a success
PublishPutFail_Records(p) ==
    /\ req[p].pc = "put"
    /\ req' = [req EXCEPT ![p] =
                 [req[p] EXCEPT
                     !.pc = "record",
                     !.pending = [NoPublishResult EXCEPT
                                     !.kind = "real", !.overwrite = req[p].overwrite],
                     !.resp = Resp(200, "")]]
    /\ UNCHANGED <<ENABLE_PUBLISH, PUBLISH_DRY_RUN, PUBLISH_UI_ENABLED, prompt, gen, now, prefill, ext, humanEdited, view>>

\* publish_reply raises: lines 491-493
PublishPutFail(p) ==
    /\ req[p].pc = "put"
    /\ req' = [req EXCEPT ![p] =
                 Done(req[p], Resp(500, "publish error"))]
    /\ UNCHANGED <<ENABLE_PUBLISH, PUBLISH_DRY_RUN, PUBLISH_UI_ENABLED, prompt, gen, now, prefill, ext, humanEdited, view>>

\* prefill_set_published, then the 200 response (lines 466-467, 483-484, 489-490)
PublishRecord(p) ==
    /\ req[p].pc = "record"
    /\ prefill' = prefill_set_published(prefill, req[p].rid, req[p].pending, now)
    /\ req' = [req EXCEPT ![p] = [req[p] EXCEPT !.pc = "done"]]
    /\ UNCHANGED <<ENABLE_PUBLISH, PUBLISH_DRY_RUN, PUBLISH_UI_ENABLED, prompt, gen, now, ext, humanEdited, view>>

api_publish(p) ==
    \/ PublishStart(p)
    \/ PublishPrecheckOk(p)
    \/ PublishPrecheckFail(p)
    \/ PublishPutOk(p)
    \/ PublishPutFail(p)
    \/ PublishRecord(p)

\* ---------------------------------------------------------------- generate
\* the position of the first run holding the symbol ch, 0 if there is none
RECURSIVE IndexFrom(_, _, _)
IndexFrom(s, ch, i) ==
    IF i > Len(s) THEN 0 ELSE IF s[i].c = ch THEN i ELSE IndexFrom(s, ch, i + 1)

\* _strip_public_header: re.sub(r"^\s*ÖFFENTLICHE ANTWORT:\s*", "", text).strip()
_strip_public_header(text) ==
    LET t == LStrip(text)
    IN  IF t # <<>> /\ Head(t).c = PUBLIC_HEADER
        THEN Strip(IF Head(t).n > 1
                   THEN <<[Head(t) EXCEPT !.n = @ - 1]>> \o Tail(t)
                   ELSE Tail(t))
        ELSE Strip(text)

\* the insights found after the header: the span from the first brace to the
\* last one (the patterns are greedy), if it parses as JSON
ParseInsights(insights_raw) ==
    LET ok == IndexFrom(insights_raw, JSON_OK, 1)
        bad == IndexFrom(insights_raw, JSON_BAD, 1)
    IN  IF ok # 0 /\ bad = 0 THEN "json" ELSE "none"

\* split_public_and_insights(raw) -> (public_text, insights)
split_public_and_insights(raw) ==
    LET at == IndexFrom(raw, INSIGHTS_HEADER, 1)
    IN  IF raw = EMPTY THEN [public |-> EMPTY, insights |-> "none"]
        ELSE IF at = 0
        THEN [public |-> _strip_public_header(Strip(raw)), insights |-> "none"]
        ELSE [public |-> Strip(_strip_public_header(Strip(SubSeq(raw, 1, at - 1)))),
              insights |->
                 ParseInsights(
                    (IF raw[at].n > 1 THEN <<[raw[at] EXCEPT !.n = @ - 1]>> ELSE <<>>)
                    \o SubSeq(raw, at + 1, Len(raw)))]

\* _first_non_empty_pairs: over reviews[:MAX_REVIEWS], the trimmed non-empty
\* reviews, each with the rating of its position
\* variant: every submitted review is taken
RECURSIVE PairsFrom_NoCap(_, _, _)
PairsFrom_NoCap(reviews, ratings, idx) ==
    IF idx > Len(reviews) THEN <<>>
    ELSE LET rev_txt == Strip(OrElse(reviews[idx], EMPTY))
             rat == IF idx <= Len(ratings) THEN ratings[idx] ELSE ""
         IN  (IF rev_txt = EMPTY THEN <<>> ELSE <<[review |-> rev_txt, rating |-> rat]>>)
             \o PairsFrom_NoCap(reviews, ratings, idx + 1)

RECURSIVE PairsFrom(_, _, _)
PairsFrom(reviews, ratings, idx) ==
    IF idx > Len(reviews) \/ idx > MAX_REVIEWS THEN <<>>
    ELSE LET rev_txt == Strip(OrElse(reviews[idx], EMPTY))
             rat == IF idx <= Len(ratings) THEN ratings[idx] ELSE ""
         IN  (IF rev_txt = EMPTY THEN <<>> ELSE <<[review |-> rev_txt, rating |-> rat]>>)
             \o PairsFrom(reviews, ratings, idx + 1)

_first_non_empty_pairs(reviews, ratings) == PairsFrom(reviews, ratings, 1)

\* rid = single-review mode (lines 581-584)
PairsToProcess(rid, pairs) ==
    IF rid # NoRid /\ pairs # <<>> THEN <<pairs[1]>> ELSE pairs

\* the loop of lines 586-604 from entry i on; FAIL if a collaborator call raises
RECURSIVE RepliesFrom(_, _, _)
RepliesFrom(pairs, outs, i) ==
    IF i > Len(pairs) THEN <<>>
    ELSE IF outs[i] = FAIL THEN FAIL
    ELSE LET parts == split_public_and_insights(Strip(OrElse(outs[i], EMPTY)))
             rest == RepliesFrom(pairs, outs, i + 1)
         IN  IF rest = FAIL THEN FAIL
             ELSE <<[review |-> pairs[i].review, reply |-> parts.public,
                     insights |-> parts.insights]>> \o rest

\* POST /generate: 500 when a collaborator call raises, else the redirect to
\* the form (with a rid, after the UPDATE) or the page with the replies
generate(inputs) ==
    /\ \E in \in inputs :
         LET pairs == PairsToProcess(in.rid, _first_non_empty_pairs(in.reviews, in.ratings))
             replies_out == RepliesFrom(pairs, in.outs, 1)
             call == [NoGen EXCEPT !.called = TRUE, !.rid = in.rid,
                                   !.reviews = in.reviews, !.outs = in.outs,
                                   !.processed = pairs]
         IN  IF replies_out = FAIL
             THEN /\ prefill' = prefill
                  /\ gen' = [call EXCEPT !.status = 500]
             ELSE IF in.rid # NoRid
             THEN /\ prefill' = prefill_set_generated(
                                   prefill, in.rid, [set |-> TRUE, replies |-> replies_out], now)
                  /\ gen' = [call EXCEPT !.status = 302, !.replies = replies_out,
                                         !.stored = (in.rid \in DOMAIN prefill)]
             ELSE /\ prefill' = prefill
                  /\ gen' = [call EXCEPT !.status = 200, !.replies = replies_out]
    /\ UNCHANGED <<ENABLE_PUBLISH, PUBLISH_DRY_RUN, PUBLISH_UI_ENABLED, prompt, now, ext, humanEdited, req, view>>

\* ------------------------------------------------------------ build_prompt
\* the prefixes of the condition syntax, and the field names, each one symbol
ISSET == "isset:"
IF_ == "if:"
Field(name) == Run(name, 1)

\* s without its first character
DropFirst(s) ==
    IF Head(s).n > 1 THEN <<[c |-> Head(s).c, n |-> Head(s).n - 1]>> \o Tail(s)
    ELSE Tail(s)

\* user_input.get(key), None when the key is absent
Get(user_input, key) ==
    IF key \in DOMAIN user_input THEN user_input[key] ELSE NONE

\* variant: a condition of unknown syntax lets the line through
evaluate_condition_UnknownPasses(condition, user_input) ==
    IF condition = NONE \/ Strip(condition) = EMPTY THEN TRUE
    ELSE LET c == Strip(condition)
         IN  IF Head(c).c = ISSET
             THEN LET val == Get(user_input, DropFirst(c))
                  IN  val # NONE /\ Strip(val) # EMPTY
             ELSE IF Head(c).c = IF_
             THEN LET expr == DropFirst(c)
                      eq == IndexFrom(expr, "=", 1)
                  IN  IF eq = 0 THEN FALSE
                      ELSE LET key == Strip(SubSeq(expr, 1, eq - 1))
                               expected == Strip(DropFirst(SubSeq(expr, eq, Len(expr))))
                               actual == Strip(OrElse(Get(user_input, key), EMPTY))
                           IN  actual = expected
             ELSE TRUE

\* evaluate_condition: no condition, "isset:<field>", "if:<field>=<value>",
\* anything else
evaluate_condition(condition, user_input) ==
    IF condition = NONE \/ Strip(condition) = EMPTY THEN TRUE
    ELSE LET c == Strip(condition)
         IN  IF Head(c).c = ISSET
             THEN LET val == Get(user_input, DropFirst(c))
                  IN  val # NONE /\ Strip(val) # EMPTY
             ELSE IF Head(c).c = IF_
             THEN LET expr == DropFirst(c)
                      eq == IndexFrom(expr, "=", 1)
                  IN  IF eq = 0 THEN FALSE
                      ELSE LET key == Strip(SubSeq(expr, 1, eq - 1))
                               expected == Strip(DropFirst(SubSeq(expr, eq, Len(expr))))
                               actual == Strip(OrElse(Get(user_input, key), EMPTY))
                           IN  actual = expected
             ELSE FALSE

\* the loop over the <line> elements (lines 29-35): the trimmed texts of the
\* lines whose condition holds, without the blank ones
RECURSIVE PromptLinesFrom(_, _, _)
PromptLinesFrom(template, user_input, i) ==
    IF i > Len(template) THEN <<>>
    ELSE LET text == Strip(OrElse(template[i].text, EMPTY))
         IN  (IF evaluate_condition(template[i].condition, user_input) /\ text # EMPTY
              THEN <<text>> ELSE <<>>)
             \o PromptLinesFrom(template, user_input, i + 1)

\* the condition "isset:<key>" and the condition "if:<key>=<value>"
IssetOf(key) == Run(ISSET, 1) \o key
IfOf(key, value) == Run(IF_, 1) \o key \o Run("=", 1) \o value

\* a text with a blank before and after it
Padded(s) == Run(" ", 1) \o s \o Run(" ", 1)

\* the keys conditions name: two fields generate passes, one it does not pass,
\* and a field name with blanks around it
ConditionKeys ==
    {Field("selectedTone"), Field("contactEmail"), Field("salutation"),
     Padded(Field("contactEmail"))}
\* the values conditions compare with: a tone, the tone capitalised, nothing,
\* and a value starting with "="
ConditionValues == {Run("f", 1), Run("F", 1), EMPTY, Run("=", 1) \o Run("f", 1)}
\* conditions of a syntax evaluate_condition does not know
UnknownConditions ==
    {Run("when:", 1) \o Field("selectedTone"),
     Run("ISSET:", 1) \o Field("contactEmail"),
     Field("contactEmail"),
     Run(IF_, 1) \o Field("selectedTone")}
\* the condition attributes found in the template
Conditions ==
    {NONE, EMPTY, Run(" ", 2)}
    \cup {IssetOf(k) : k \in ConditionKeys}
    \cup {Padded(IssetOf(Field("contactEmail")))}
    \cup {IfOf(k, v) : k \in ConditionKeys, v \in ConditionValues}
    \cup {Padded(IfOf(Padded(Field("selectedTone")), Padded(Run("f", 1))))}
    \cup UnknownConditions
\* the templates: one line "L" under each condition, and three lines of which
\* the second is blank
Templates ==
    {<<[condition |-> c, text |-> Padded(Run("L", 1))]>> : c \in Conditions}
    \cup {<<[condition |-> NONE, text |-> Run("K", 1)],
            [condition |-> NONE, text |-> Run(" ", 1)],
            [condition |-> IssetOf(Field("contactEmail")), text |-> Run("L", 1)]>>}
\* the form values build_prompt is called with
UserInputs ==
    {[k \in {Field("selectedTone"), Field("contactEmail")} |->
         IF k = Field("selectedTone") THEN tone ELSE mail] :
       tone \in {Run("f", 1), Padded(Run("f", 1)), Run("F", 1), EMPTY},
       mail \in {EMPTY, Run(" ", 1), Run("m", 1)}}

\* build_prompt, up to the lines taken from the template (the lines after
\* them repeat the form values and do not depend on the conditions)
build_prompt ==
    /\ \E template \in Templates, user_input \in UserInputs :
         prompt' = [called |-> TRUE, template |-> template, user_input |-> user_input,
                    prompt_lines |-> PromptLinesFrom(template, user_input, 1)]
    /\ UNCHANGED <<ENABLE_PUBLISH, PUBLISH_DRY_RUN, PUBLISH_UI_ENABLED, gen, now,
                   prefill, ext, humanEdited, req, view>>

\* ------------------------------------------------------------ read handlers
\* prefill_get_row: the row stored under rid, whatever its age
prefill_get_row(rid) ==
    IF rid # NoRid /\ rid \in DOMAIN prefill
    THEN [found |-> TRUE, row |-> prefill[rid]]
    ELSE [found |-> FALSE, row |-> NewRow(NoPayload, NoTime)]

\* GET /?rid=: what the form is rendered with (lines 511-528)
IndexView(rid) ==
    LET got == prefill_get_row(rid)
        ready == compute_publish_ready(got.row.payload)
    IN  IF rid # NoRid /\ got.found
        THEN [NoView EXCEPT
                 !.op = "index", !.rid = rid, !.aged = Aged(rid), !.status = 200,
                 !.found = TRUE,
                 !.publish_ready = ready.ready, !.publish_missing = ready.missing,
                 !.review = _dedupe_reviewer(got.row.payload.review,
                                             got.row.payload.reviewer,
                                             got.row.payload.reviewed_at),
                 !.replies = IF got.row.generated.set
                             THEN got.row.generated.replies ELSE <<>>,
                 !.published_at = got.row.published_at,
                 !.publish_result = got.row.publish_result]
        ELSE [NoView EXCEPT !.op = "index", !.rid = rid, !.aged = Aged(rid), !.status = 200]

index ==
    /\ \E rid \in RIDS \cup {NoRid, NeverIssued} : view' = IndexView(rid)
    /\ UNCHANGED <<ENABLE_PUBLISH, PUBLISH_DRY_RUN, PUBLISH_UI_ENABLED, prompt, gen, now, prefill, ext, humanEdited, req>>

\* GET /api/debug/prefill?rid= (lines 369-390)
DebugView(secret_ok, rid) ==
    LET got == prefill_get_row(rid)
        ready == compute_publish_ready(got.row.payload)
    IN  IF ~secret_ok
        THEN [NoView EXCEPT !.op = "debug", !.rid = rid, !.aged = Aged(rid), !.status = 401]
        ELSE IF ~got.found
        THEN [NoView EXCEPT !.op = "debug", !.rid = rid, !.aged = Aged(rid), !.status = 404]
        ELSE [NoView EXCEPT
                 !.op = "debug", !.rid = rid, !.aged = Aged(rid), !.status = 200,
                 !.found = TRUE, !.created_at = got.row.created_at,
                 !.publish_ready = ready.ready, !.publish_missing = ready.missing]

api_debug_prefill ==
    /\ \E secret_ok \in BOOLEAN, rid \in RIDS \cup {NeverIssued} :
         view' = DebugView(secret_ok, rid)
    /\ UNCHANGED <<ENABLE_PUBLISH, PUBLISH_DRY_RUN, PUBLISH_UI_ENABLED, prompt, gen, now, prefill, ext, humanEdited, req>>

Next ==
    \/ HumanReply
    \/ api_prefill(StagedInputs)
    \/ generate(StoredGenerateInputs)
    \/ \E p \in {"p1", "p2"} : api_publish(p)

\* No handler below reads PUBLISH_UI_ENABLED (it reaches the page template
\* only), so the specifications that explore interleavings fix it.
InitUiOff == Init /\ ~PUBLISH_UI_ENABLED

Spec == InitUiOff /\ [][Next]_vars

\* One handler instance, the clock and the read handlers: the life of a record
\* from staging to past its TTL.
NextClock ==
    \/ Tick
    \/ api_prefill(StagedInputs)
    \/ generate(StoredGenerateInputs)
    \/ index
    \/ api_debug_prefill
    \/ api_publish("p2")

SpecClock == InitUiOff /\ [][NextClock]_vars

\* One request at a time, under every setting of the flags: which reply a
\* publish request resolves to.
NextReply ==
    \/ api_prefill(StagedInputs)
    \/ generate(StoredGenerateInputs)
    \/ api_publish("p3")

SpecReply == Init /\ [][NextReply]_vars

\* Staging, generation and the form: what is stored of a review and of a batch.
NextBatch ==
    \/ api_prefill(ComposeInputs)
    \/ generate(GenerateInputs)
    \/ index

SpecBatch == Init /\ [][NextBatch]_vars

\* The prompt built for one review, for every template line and form.
NextPrompt ==
    \/ build_prompt

SpecPrompt == Init /\ [][NextPrompt]_vars

\* ===================================================================== claims
\* what a request has done so far, read off its position and its locals
GetTried(r) == r.precheck # "none"
PutApplied(r) == r.pending.kind = "real"
PutTried(r) == PutApplied(r) \/ (r.pc = "done" /\ r.resp.status = 500)

PrecheckAnswers(p) == req[p].pc = "precheck" /\ req'[p].precheck = "ok"

C4_AtMostOnePut ==
    \A p, q \in Procs :
        (/\ p # q /\ ~humanEdited
         /\ req[p].rid = req[q].rid /\ req[p].reply_text = req[q].reply_text
         /\ ~req[p].overwrite /\ ~req[q].overwrite
         /\ req[p].precheck = "ok" /\ req[q].precheck = "ok")
        => ~(PutApplied(req[p]) /\ PutApplied(req[q]))

\* C5 (as stated): every read path treats a record with now > created_at + TTL
\* as absent: index and the debug lookup expose nothing of it, and publish
\* answers as for a missing or expired rid.
C5_AgedIsAbsent ==
    /\ view.aged => ~view.found
    /\ \A p \in Procs :
         req[p].aged => req[p].pc = "done" /\ req[p].resp.status \in {404, 410}

PassedLookup(r) ==
    \/ r.pc \in {"precheck", "put", "record"}
    \/ /\ r.pc = "done"
       /\ r.resp.status \notin {401, 403, 404, 410}
       /\ r.resp.error # "missing rid"

\* the keys of (accountId, locationId, reviewId), in that order, whose value is
\* absent or blank
MissingOf(payload) ==
    SelectSeq(PublishKeys, LAMBDA k : payload[k] = NONE \/ Strip(payload[k]) = EMPTY)

\* C7: a request for a row with missing or blank identifiers ends as NotReady
\* with the list of those keys in order, without a call to the platform and
\* without a ledger write; and NotReady is answered only then.
C7_NotReady ==
    \A p \in Procs :
        (PassedLookup(req[p]) /\ req[p].rid \in DOMAIN prefill)
        => LET missing == MissingOf(prefill[req[p].rid].payload)
           IN  /\ missing # <<>>
                  => /\ req[p].pc = "done"
                     /\ req[p].resp.status = 400
                     /\ req[p].resp.error = "publish not ready"
                     /\ req[p].resp.missing = missing
                     /\ ~GetTried(req[p]) /\ ~PutTried(req[p])
                     /\ req[p].pending.kind = "none"
                     /\ prefill[req[p].rid].publish_result = NoPublishResult
               /\ missing = <<>> => req[p].resp.error # "publish not ready"

\* a row staged without locationId was answered NotReady, missing = [locationId]
C7_Witness ==
    \E p \in Procs :
        /\ req[p].pc = "done" /\ req[p].resp.error = "publish not ready"
        /\ req[p].resp.missing = <<"locationId">>
        /\ prefill[req[p].rid].payload.locationId = EMPTY

\* C8 (as stated): a request without force that finds a publish result on the
\* row performs no external write, records no new publish outcome, and ends
\* already-up-to-date or rejected (taken with no human edit of the review and a
\* conflict check that answers).
C8_PublishedOnce ==
    \A p \in Procs :
        (/\ req[p].republish /\ ~req[p].overwrite
         /\ ~humanEdited /\ req[p].precheck # "failed")
        => /\ ~PutTried(req[p])
           /\ req[p].pending.kind \notin {"dry", "real"}
           /\ req[p].pc = "done"
              => req[p].resp.already_up_to_date \/ req[p].resp.status >= 400

\* C9: a failing publish_reply ends the request in a 500 that carries the error
\* and leaves the ledger as it was; and a {dry_run: false, result} is handed to
\* the ledger only by a request whose publish_reply has just stored its reply on
\* the platform.
C9_PutFailure ==
    /\ [][\A p \in Procs :
            (req[p].pc = "put" /\ req'[p].pc = "done")
            => /\ req'[p].resp.status = 500
               /\ req'[p].resp.error = "publish error"
               /\ req'[p].pending.kind = "none"
               /\ prefill' = prefill]_vars
    /\ [][\A p \in Procs :
            (req'[p].pending.kind = "real" /\ req[p].pending.kind # "real")
            => /\ req[p].pc = "put"
               /\ ext' = [comment |-> req[p].reply_text, updateTime |-> now]
               /\ req'[p].pending.result = req[p].reply_text]_vars
    /\ [][\A rid \in DOMAIN prefill :
            (/\ prefill'[rid].publish_result # prefill[rid].publish_result
             /\ prefill'[rid].publish_result.kind = "real")
            => \E p \in Procs :
                  /\ req[p].pc = "record" /\ req[p].rid = rid
                  /\ req[p].pending = prefill'[rid].publish_result
                  /\ req'[p].resp.status = 200]_vars

\* a request ended in the 500 of a failed publish_reply, the row still without
\* any publish result
C9_Witness ==
    \E p \in Procs :
        /\ req[p].pc = "done" /\ req[p].resp.status = 500
        /\ req[p].resp.error = "publish error"
        /\ prefill[req[p].rid].publish_result = NoPublishResult
        /\ prefill[req[p].rid].published_at = NoTime

\* C10: in dry-run mode no request reaches publish_reply and the review's reply
\* changes by out-of-band edits only, overwrite or not; the request that gets to
\* the write step stores a publish result with dry_run = true and answers 200.
C10_DryRun ==
    /\ [](PUBLISH_DRY_RUN
          => \A p \in Procs :
                /\ req[p].pc # "put" /\ ~PutTried(req[p])
                /\ req[p].pc \in {"record", "done"} /\ GetTried(req[p])
                   /\ req[p].resp.status # 409
                   => req[p].pending.dry_run /\ req[p].resp.status = 200)
    /\ [][PUBLISH_DRY_RUN /\ ext' # ext => req' = req /\ humanEdited']_vars
    /\ [][PUBLISH_DRY_RUN
          => \A p \in Procs :
                (req[p].pc = "record" /\ req'[p].pc = "done")
                => /\ prefill'[req[p].rid].publish_result.dry_run
                   /\ prefill'[req[p].rid].publish_result = req[p].pending
                   /\ req'[p].resp.status = 200]_vars

\* in dry-run mode a forced request against a review that carries another reply
\* answered 200 dry_run, the row holds its dry-run result and the reply stands
C10_Witness ==
    /\ PUBLISH_DRY_RUN
    /\ \E p \in Procs :
         /\ req[p].pc = "done" /\ req[p].overwrite
         /\ req[p].existing_reply \notin {NONE, req[p].reply_text}
         /\ req[p].resp.status = 200 /\ req[p].resp.dry_run
         /\ prefill[req[p].rid].publish_result.kind = "dry"
         /\ prefill[req[p].rid].publish_result.overwrite
         /\ ext.comment = Run("b", 1)

\* C11 (as stated): a reply supplied by the caller is the text published only
\* in a deployment that allows client-supplied replies; a request for which
\* neither the body nor the generated replies yield a text is rejected with no
\* external call and no ledger write.
C11_ClientReplyGated ==
    \A p \in Procs :
        /\ (PutApplied(req[p]) /\ req[p].source = "body") => PUBLISH_UI_ENABLED
        /\ (req[p].pc = "done" /\ req[p].resp.error = "no reply text available")
              => (~GetTried(req[p]) /\ ~PutTried(req[p]) /\ req[p].pending.kind = "none")

\* C12: a publish request whose resolved reply text is longer than
\* MAX_REPLY_BYTES bytes in UTF-8 ends 400 reply_too_long with no external
\* call (get or put) and nothing to record in the ledger; a reply text of at
\* most MAX_REPLY_BYTES bytes is never rejected as too long.
C12_SizeGuard ==
    \A p \in Procs :
        (req[p].pc # "idle" /\ req[p].reply_text # EMPTY)
        => IF EncodedLen(req[p].reply_text) > MAX_REPLY_BYTES
           THEN /\ req[p].pc = "done"
                /\ req[p].resp.status = 400
                /\ req[p].resp.error = "reply_too_long"
                /\ ~GetTried(req[p])
                /\ ~PutTried(req[p])
                /\ req[p].pending.kind = "none"
           ELSE req[p].resp.error # "reply_too_long"

\* a reply of fewer than MAX_REPLY_BYTES characters and more than
\* MAX_REPLY_BYTES bytes was rejected
C12_Witness ==
    \E p \in Procs :
        /\ req[p].pc = "done"
        /\ req[p].resp.error = "reply_too_long"
        /\ CharLen(req[p].reply_text) < MAX_REPLY_BYTES
        /\ EncodedLen(req[p].reply_text) = MAX_REPLY_BYTES + 2

\* C13: no step changes the payload or created_at of a stored record; a step
\* that changes generated or generated_at leaves published_at and
\* publish_result alone, and a step that changes those leaves generated and
\* generated_at alone.
C13_PayloadFrame ==
    [][\A rid \in DOMAIN prefill :
          /\ rid \in DOMAIN prefill'
          /\ prefill'[rid].payload = prefill[rid].payload
          /\ prefill'[rid].created_at = prefill[rid].created_at
          /\ (\/ prefill'[rid].generated # prefill[rid].generated
              \/ prefill'[rid].generated_at # prefill[rid].generated_at)
                => /\ prefill'[rid].published_at = prefill[rid].published_at
                   /\ prefill'[rid].publish_result = prefill[rid].publish_result
          /\ (\/ prefill'[rid].published_at # prefill[rid].published_at
              \/ prefill'[rid].publish_result # prefill[rid].publish_result)
                => /\ prefill'[rid].generated = prefill[rid].generated
                   /\ prefill'[rid].generated_at = prefill[rid].generated_at]_vars

\* a staged record that a generate request and a publish request have both
\* written to
C13_Witness ==
    \E rid \in DOMAIN prefill :
        /\ prefill[rid].generated.set
        /\ prefill[rid].generated.replies # <<>>
        /\ prefill[rid].publish_result.kind = "real"
        /\ prefill[rid].payload.review # EMPTY

\* C14: whatever the interleaving, the record holds the generated value of the
\* last generate request that stored one, and a publish_result changes only by
\* a publish request recording its own result, which leaves generated alone.
C14_PartialUpdates ==
    /\ [](gen.stored =>
            /\ prefill[gen.rid].generated = [set |-> TRUE, replies |-> gen.replies]
            /\ prefill[gen.rid].generated_at # NoTime)
    /\ [][\A rid \in DOMAIN prefill :
             prefill'[rid].publish_result # prefill[rid].publish_result
             => /\ \E p \in Procs :
                     /\ req[p].pc = "record" /\ req'[p].pc = "done"
                     /\ req[p].rid = rid
                     /\ prefill'[rid].publish_result = req[p].pending
                /\ prefill'[rid].generated = prefill[rid].generated]_vars

\* a publish request took its reply from the generated replies and recorded
\* its result, and a generate request on the same token has since stored an
\* empty list: the record holds both writes
C14_Witness ==
    \E p \in Procs :
        /\ req[p].pc = "done"
        /\ req[p].pending.kind = "real"
        /\ req[p].source = "generated"
        /\ gen.stored /\ gen.rid = req[p].rid
        /\ gen.replies = <<>>
        /\ prefill[req[p].rid].publish_result = req[p].pending
        /\ prefill[req[p].rid].generated.replies = <<>>

\* C15: no step removes a stored token, and a stored token keeps the record it
\* was assigned to (its payload and its creation time).
C15_NoDeletion ==
    [][/\ DOMAIN prefill \subseteq DOMAIN prefill'
       /\ \A rid \in DOMAIN prefill :
             /\ prefill'[rid].payload = prefill[rid].payload
             /\ prefill'[rid].created_at = prefill[rid].created_at]_vars

\* a record past its TTL that was generated for, published and then read
C15_Witness ==
    /\ view.op = "index" /\ view.found /\ view.aged
    /\ view.rid \in DOMAIN prefill
    /\ prefill[view.rid].generated.set
    /\ prefill[view.rid].publish_result.kind # "none"

\* what a generate call that skips its failed entries would answer: the
\* results of the entries whose collaborator call succeeded, in order
RECURSIVE SucceededFrom(_, _, _)
SucceededFrom(pairs, outs, i) ==
    IF i > Len(pairs) THEN <<>>
    ELSE (IF outs[i] = FAIL THEN <<>>
          ELSE LET parts == split_public_and_insights(Strip(OrElse(outs[i], EMPTY)))
               IN  <<[review |-> pairs[i].review, reply |-> parts.public,
                      insights |-> parts.insights]>>)
         \o SucceededFrom(pairs, outs, i + 1)

\* C16 (as stated): a generate call in which the collaborator fails for an
\* entry still answers, with the results of the entries that succeeded.
C16_FailureIsPerEntry ==
    gen.called
    => /\ gen.status \in {200, 302}
       /\ gen.replies = SucceededFrom(gen.processed, gen.outs, 1)

\* C17: a generate call without a token processes at most MAX_REVIEWS reviews
\* and is not rejected for carrying more; when the first MAX_REVIEWS submitted
\* reviews are all non-blank it processes exactly those, in order.
C17_BatchCap ==
    (gen.called /\ gen.rid = NoRid)
    => /\ Len(gen.processed) <= MAX_REVIEWS
       /\ gen.status \in {200, 500}
       /\ (gen.status = 200 => Len(gen.replies) = Len(gen.processed))
       /\ (/\ Len(gen.reviews) >= MAX_REVIEWS
           /\ \A i \in 1 .. MAX_REVIEWS : Strip(OrElse(gen.reviews[i], EMPTY)) # EMPTY)
          => /\ Len(gen.processed) = MAX_REVIEWS
             /\ \A i \in 1 .. MAX_REVIEWS :
                   gen.processed[i].review = Strip(gen.reviews[i])

\* MaxSubmitted reviews were submitted and MAX_REVIEWS replies came back
C17_Witness ==
    /\ gen.called /\ gen.rid = NoRid
    /\ Len(gen.reviews) = MaxSubmitted
    /\ gen.status = 200
    /\ Len(gen.replies) = MAX_REVIEWS

\* the positions of the submitted reviews that are not blank
NonBlankAt(reviews) ==
    {i \in 1 .. Len(reviews) : Strip(OrElse(reviews[i], EMPTY)) # EMPTY}

\* C18 (as stated): a generate call with a token processes exactly the first
\* non-blank submitted review, wherever it sits in the submitted list, and the
\* generated list it stores has exactly one element.
C18_SingleReview ==
    (gen.called /\ gen.rid # NoRid /\ NonBlankAt(gen.reviews) # {})
    => LET first == CHOOSE i \in NonBlankAt(gen.reviews) :
                        \A j \in NonBlankAt(gen.reviews) : i <= j
       IN  /\ Len(gen.processed) = 1
           /\ gen.processed[1].review = Strip(gen.reviews[first])
           /\ gen.stored => Len(prefill[gen.rid].generated.replies) = 1

\* C19 (as stated): composing a composed review again, with the same reviewer
\* and date, changes nothing: the review the form shows (composed by index
\* from the stored one) is the review api_prefill composed and stored.
C19_ComposeIdempotent ==
    (view.op = "index" /\ view.found)
    => view.review = prefill[view.rid].payload.review

\* a line starting with an em dash
IsFooterLine(ln) == ln # <<>> /\ Head(ln).c = EM_DASH

\* the text ends in two footer lines or more
EndsInTwoFooters(text) ==
    LET lines == NonBlankLines(text)
    IN  /\ Len(lines) >= 2
        /\ IsFooterLine(lines[Len(lines)])
        /\ IsFooterLine(lines[Len(lines) - 1])

\* C20 (as stated): a composed review never ends in more than one footer
\* line; composing with neither reviewer nor date adds nothing; an empty
\* review composes to the empty text.
C20_SingleFooter ==
    /\ \A rid \in DOMAIN prefill : ~EndsInTwoFooters(prefill[rid].payload.review)
    /\ (view.op = "index" /\ view.found)
       => LET p == prefill[view.rid].payload
          IN  /\ ~EndsInTwoFooters(view.review)
              /\ (p.reviewer = EMPTY /\ p.reviewed_at = EMPTY) => view.review = p.review
              /\ p.review = EMPTY => view.review = EMPTY

\* present(field): the form holds the field and its value is not blank
Present(user_input, key) ==
    key \in DOMAIN user_input /\ Strip(user_input[key]) # EMPTY

\* equals(field, literal): the trimmed value of the field (nothing, if the
\* form does not hold it) is the literal, character for character
Equals(user_input, key, literal) ==
    Strip(IF key \in DOMAIN user_input THEN user_input[key] ELSE EMPTY) = literal

\* the template had one line and it was taken
Included == prompt.prompt_lines = <<Run("L", 1)>>

\* C21: a line with no condition is always included; a line under
\* isset:<field> is included iff the field is present; a line under
\* if:<field>=<literal> is included iff the trimmed field equals the literal;
\* a line under any other condition is dropped.
C21_Conditions ==
    (prompt.called /\ Len(prompt.template) = 1)
    => LET cond == prompt.template[1].condition
           ui == prompt.user_input
       IN  /\ cond \in {NONE, EMPTY, Run(" ", 2)} => Included
           /\ \A k \in ConditionKeys :
                 /\ cond = IssetOf(k) => (Included <=> Present(ui, k))
                 /\ \A v \in ConditionValues :
                       cond = IfOf(k, v) => (Included <=> Equals(ui, Strip(k), v))
           /\ cond = Padded(IssetOf(Field("contactEmail")))
                 => (Included <=> Present(ui, Field("contactEmail")))
           /\ cond = Padded(IfOf(Padded(Field("selectedTone")), Padded(Run("f", 1))))
                 => (Included <=> Equals(ui, Field("selectedTone"), Run("f", 1)))
           /\ cond \in UnknownConditions => prompt.prompt_lines = <<>>

\* a line under a condition of unknown syntax was dropped for a form that
\* holds the field the condition names
C21_Witness ==
    /\ prompt.called
    /\ Len(prompt.template) = 1
    /\ prompt.template[1].condition = Run("ISSET:", 1) \o Field("contactEmail")
    /\ Present(prompt.user_input, Field("contactEmail"))
    /\ prompt.prompt_lines = <<>>

\* C22 (as stated): a publish lookup made after created_at + TTL treats the
\* record as expired, whatever its creation time, and one made up to
\* created_at + TTL does not.
C22_TtlBoundary ==
    \A p \in Procs :
        /\ (req[p].pc # "idle" /\ req[p].aged)
              => (req[p].pc = "done" /\ req[p].resp.status = 410)
        /\ (req[p].pc = "done" /\ req[p].resp.status = 410) => req[p].aged

\* C23 (as stated): whenever a publish request without force puts its reply,
\* after a conflict check that succeeded, the external reply at that moment
\* is absent or equal to the candidate.
C23_NoBlindReplace ==
    [][\A p \in Procs :
          (/\ req[p].pc = "put"
           /\ req'[p].pc = "record"
           /\ ~req[p].overwrite
           /\ req[p].precheck = "ok")
          => \/ ExistingReply(ext.comment) = NONE
             \/ ExistingReply(ext.comment) = req[p].reply_text]_vars

\* C24: a generate request with the token of a stored record that ends well
\* leaves exactly its output list in the record's generated field: one reply
\* per processed review, in order, and the empty list when no submitted
\* review was left to process.
C24_GenerateOverwrites ==
    [][(gen' # gen /\ gen'.status = 302 /\ gen'.rid \in DOMAIN prefill)
       => LET stored == prefill'[gen'.rid].generated
          IN  /\ gen'.stored
              /\ stored.set
              /\ stored.replies = gen'.replies
              /\ Len(stored.replies) = Len(gen'.processed)
              /\ \A i \in 1 .. Len(stored.replies) :
                    stored.replies[i].review = gen'.processed[i].review
              /\ NonBlankAt(gen'.reviews) = {} => stored.replies = <<>>]_vars

\* the form showed generated replies of a record whose generated field a
\* later generate request, with only a blank review, has set to the empty list
C24_Witness ==
    /\ view.op = "index" /\ view.found /\ view.replies # <<>>
    /\ gen.stored /\ gen.rid = view.rid
    /\ NonBlankAt(gen.reviews) = {}
    /\ prefill[gen.rid].generated = [set |-> TRUE, replies |-> <<>>]

\* C25: published_at and publish_result of a record change only in the step
\* in which a publish request that answers 200 records its result; a request
\* that ends otherwise has nothing to record and the step that ends it leaves
\* the whole table as it is.
C25_FailuresLeaveLedger ==
    /\ [](\A p \in Procs :
             (req[p].pc = "done" /\ req[p].resp.status # 200)
             => req[p].pending.kind = "none")
    /\ [][/\ \A rid \in DOMAIN prefill :
                (\/ prefill'[rid].publish_result # prefill[rid].publish_result
                 \/ prefill'[rid].published_at # prefill[rid].published_at)
                => \E p \in Procs :
                      /\ req[p].pc = "record" /\ req'[p].pc = "done"
                      /\ req[p].rid = rid
                      /\ req'[p].resp.status = 200
          /\ \A p \in Procs :
                (req[p].pc # "done" /\ req'[p].pc = "done" /\ req'[p].resp.status # 200)
                => prefill' = prefill]_vars

\* a publish request ended 500 on a stored record that no request has
\* recorded a result on
C25_Witness ==
    \E p \in Procs :
        /\ req[p].pc = "done"
        /\ req[p].resp.status = 500
        /\ req[p].rid \in DOMAIN prefill
        /\ prefill[req[p].rid].publish_result = NoPublishResult
        /\ prefill[req[p].rid].published_at = NoTime

\* C26: a record staged with accountId, locationId or reviewId absent or blank
\* stays so, is never published, and no publish request on its token reaches
\* the external read or write.
C26_NotReadyPermanent ==
    /\ [](\A rid \in DOMAIN prefill :
             MissingOf(prefill[rid].payload) # <<>>
             => /\ prefill[rid].publish_result = NoPublishResult
                /\ prefill[rid].published_at = NoTime
                /\ \A p \in Procs :
                      req[p].rid = rid
                      => /\ ~GetTried(req[p])
                         /\ ~PutTried(req[p])
                         /\ req[p].pc \in {"idle", "done"}
                         /\ req[p].pending.kind = "none")
    /\ [][\A rid \in DOMAIN prefill :
             MissingOf(prefill[rid].payload) # <<>>
             => MissingOf(prefill'[rid].payload) # <<>>]_vars

\* a record without a locationId has generated replies, and a publish request
\* on it that carried a reply was turned away as not ready
C26_Witness ==
    \E p \in Procs :
        /\ req[p].pc = "done"
        /\ req[p].resp.error = "publish not ready"
        /\ req[p].rid \in DOMAIN prefill
        /\ prefill[req[p].rid].generated.set
        /\ prefill[req[p].rid].generated.replies # <<>>
        /\ MissingOf(prefill[req[p].rid].payload) = <<"locationId">>
====
